---- MODULE Spec2Model ----
(***************************************************************************)
(* imdialog (src/main.rs): one modal dialog -- file selection, text input  *)
(* or tagged menu -- driven by a single-threaded loop that alternates UI   *)
(* passes with the application of queued input events.                     *)
(*                                                                         *)
(* Text is modelled as sequences of bytes, a path as the sequence of its   *)
(* components under the root (<<>> is "/"), Option<T> as a set with at     *)
(* most one element ({} is None, {x} is Some(x)).  The imgui widgets are   *)
(* external: what a widget call returns in a UI pass is an input of that   *)
(* pass, constrained only by what the widget can return at all.            *)
(***************************************************************************)
EXTENDS Integers, Sequences, FiniteSets, TLC

VARIABLES
    mode,         \* live Subdialog variant: "File", "Input" or "Menu"
    path,         \* FileDialog.path
    entries,      \* FileDialog.entries.entries (display strings)
    index,        \* FileDialog.entries.index (0-based)
    data,         \* InputDialog.data
    items,        \* MenuDialog.items
    fs,           \* the filesystem the process runs on (environment)
    event_queue,  \* main: event_queue
    keys_down,    \* imgui io.keys_down, as the set of scancodes held
    input_chars,  \* imgui io input characters queued for the next frame
    mouse_pos,    \* imgui io.mouse_pos, as the control under the pointer
    edits,        \* number of buffer edits imgui has made so far
    out,          \* lines written to stdout
    exit_code,    \* main: exit_code
    pc,           \* position of main
    status,       \* process exit status ({} while running)
    act,          \* what the widgets of the last UI pass reported
    pass_code,    \* what the last UI pass (Renderer::render) returned
    confirm_wait, \* history: event steps the first Return key-down of an
                  \* input box has still to wait for, from when it is queued
    back_buffer,  \* DrawFrames drawn since the last gl_swap_window
    draw_data,    \* the ImDrawData handed to render_draw_lists
    gl_calls,     \* the GL calls render_draw_lists has issued, in order
    args          \* the option and values of the command line

vars == <<mode, path, entries, index, data, items, fs, event_queue, keys_down,
          input_chars, mouse_pos, edits, out, exit_code, pc, status, act, pass_code,
          confirm_wait, back_buffer, draw_data, gl_calls, args>>

----------------------------------------------------------------------------
(* Bounds of the model *)

MaxQueue == 2       \* longest event_queue explored
MaxItems == 2       \* most menu items explored
MaxEdits == 1       \* most buffer edits explored

MaxLists == 2       \* most draw lists of a frame explored
MaxCmds == 2        \* most draw commands of a draw list explored

(* Program constants *)

MAX_TEXT_LENGTH == 1024
SLASH == 47         \* "/" : the directory marker and the path separator
PANIC_STATUS == 101 \* exit status of a Rust process that panicked

FRAMEBUFFER_HEIGHT == 600   \* 1080 when built for arm
SIZE_OF_IM_DRAW_VERT == 20  \* mem::size_of::<ImDrawVert>(): pos, uv, col

UP_ONE_LEVEL == <<85, 112, 32, 111, 110, 101, 32, 108, 101, 118, 101, 108>>

None == {}
Some(x) == {x}

----------------------------------------------------------------------------
(* Bytes and strings *)

RECURSIVE strcmp(_, _)
strcmp(a, b) ==
    IF a = <<>> /\ b = <<>> THEN 0
    ELSE IF a = <<>> THEN 0 - b[1]
    ELSE IF b = <<>> THEN a[1]
    ELSE IF a[1] # b[1] THEN a[1] - b[1]
    ELSE strcmp(Tail(a), Tail(b))

\* OsStr::to_str: Some iff the bytes are valid UTF-8 (one- and two-byte forms;
\* the names of the model contain no longer form).
RECURSIVE to_str_ok(_)
to_str_ok(s) ==
    IF s = <<>> THEN TRUE
    ELSE IF s[1] < 128 THEN to_str_ok(Tail(s))
    ELSE IF s[1] >= 194 /\ s[1] <= 223 /\ Len(s) >= 2 /\ s[2] >= 128 /\ s[2] <= 191
         THEN to_str_ok(Tail(Tail(s)))
    ELSE FALSE

ends_with_slash(s) == s # <<>> /\ s[Len(s)] = SLASH

pop(s) == SubSeq(s, 1, Len(s) - 1)

----------------------------------------------------------------------------
(* Paths and the filesystem *)

has_parent(p) == Len(p) > 0

parent(p) == SubSeq(p, 1, Len(p) - 1)

push(p, name) == Append(p, name)

\* Path::display of an absolute path: "/" and the components joined by "/".
RECURSIVE display(_)
display(p) ==
    IF p = <<>> THEN <<SLASH>>
    ELSE IF Len(p) = 1 THEN <<SLASH>> \o p[1]
    ELSE display(parent(p)) \o <<SLASH>> \o p[Len(p)]

\* A filesystem is a set of nodes [path, kind, readable]; kind is "dir" or
\* "file", readable says whether read_dir succeeds on a directory.
Node(p, k, r) == [path |-> p, kind |-> k, readable |-> r]

exists(f, p) == \E n \in f : n.path = p

node_at(f, p) == CHOOSE n \in f : n.path = p

is_dir(f, p) == exists(f, p) /\ node_at(f, p).kind = "dir"

children(f, p) == {n \in f : Len(n.path) = Len(p) + 1 /\ parent(n.path) = p}

file_name(n) == n.path[Len(n.path)]

----------------------------------------------------------------------------
(* Directory Lister: FileDialogEntries *)

\* fs::read_dir yields the children of p in an order the OS chooses: every
\* enumeration of the children is a possible stream.
RECURSIVE enumerations(_)
enumerations(S) ==
    IF S = {} THEN {<<>>}
    ELSE UNION {{Append(s, x) : s \in enumerations(S \ {x})} : x \in S}

read_dir(f, p) == enumerations(children(f, p))

\* One turn of the for loop: the display string the child contributes, if any.
entry_string(n) ==
    IF ~to_str_ok(file_name(n)) THEN None
    ELSE IF n.kind = "dir" THEN Some(file_name(n) \o <<SLASH>>)
    ELSE Some(file_name(n))

RECURSIVE collect_entries(_)
collect_entries(stream) ==
    IF stream = <<>> THEN <<>>
    ELSE LET rest == collect_entries(pop(stream))
             e == entry_string(stream[Len(stream)])
         IN IF e = None THEN rest ELSE Append(rest, CHOOSE x \in e : TRUE)

RECURSIVE sort_insert(_, _)
sort_insert(x, s) ==
    IF s = <<>> THEN <<x>>
    ELSE IF strcmp(x, s[1]) < 0 THEN <<x>> \o s
    ELSE <<s[1]>> \o sort_insert(x, Tail(s))

\* Faulty variant: the sort left out.
sort_by_unsorted(s) == s

RECURSIVE sort_by(_)
sort_by(s) ==
    IF s = <<>> THEN <<>>
    ELSE sort_insert(s[Len(s)], sort_by(pop(s)))

FileDialogEntries_none == [entries |-> <<>>, index |-> 0]

\* Faulty variant: the go-up entry pushed at the end instead of inserted at 0.
insert_up_last(p, sorted) ==
    IF has_parent(p) THEN Append(sorted, UP_ONE_LEVEL) ELSE sorted

insert_up(p, sorted) ==
    IF has_parent(p) THEN <<UP_ONE_LEVEL>> \o sorted ELSE sorted

\* Faulty variant: the three early returns left out.
FileDialogEntries_new_unchecked(f, p, stream) ==
    [entries |-> insert_up(p, sort_by(collect_entries(stream))), index |-> 0]

\* FileDialogEntries::new, given the stream read_dir hands out.
FileDialogEntries_new(f, p, stream) ==
    IF ~exists(f, p) THEN FileDialogEntries_none
    ELSE IF ~is_dir(f, p) THEN FileDialogEntries_none
    ELSE IF ~node_at(f, p).readable THEN FileDialogEntries_none
    ELSE [entries |-> insert_up(p, sort_by(collect_entries(stream))), index |-> 0]

SelectedFile == "File"
SelectedDirectory == "Directory"

\* Faulty variant: the entry is not pushed onto the path.
selected_path_unjoined(p, ents, idx) ==
    IF idx >= Len(ents)
    THEN [panic |-> TRUE, path |-> p, file_type |-> SelectedFile]
    ELSE [panic |-> FALSE, path |-> p,
          file_type |-> IF ends_with_slash(ents[idx + 1])
                        THEN SelectedDirectory ELSE SelectedFile]

\* FileDialog::selected_path; indexing past the end of entries panics.
selected_path(p, ents, idx) ==
    IF idx >= Len(ents)
    THEN [panic |-> TRUE, path |-> p, file_type |-> SelectedFile]
    ELSE LET entry_string_ == ents[idx + 1]
         IN IF ends_with_slash(entry_string_)
            THEN [panic |-> FALSE, path |-> push(p, pop(entry_string_)),
                  file_type |-> SelectedDirectory]
            ELSE [panic |-> FALSE, path |-> push(p, entry_string_),
                  file_type |-> SelectedFile]

----------------------------------------------------------------------------
(* Dialog construction *)

\* Vec::resize
resize(s, n, v) ==
    IF Len(s) >= n THEN SubSeq(s, 1, n)
    ELSE s \o [i \in 1..(n - Len(s)) |-> v]

\* Faulty variant: the copied text is terminated but never resized.
Dialog_inputbox_unsized(initial_data) ==
    LET copied == IF initial_data = None THEN <<>>
                  ELSE (CHOOSE t \in initial_data : TRUE) \o <<0>>
    IN Append(copied, 0)

\* Dialog::inputbox: the buffer built from the optional fourth value.
Dialog_inputbox(initial_data) ==
    LET copied == IF initial_data = None THEN <<>>
                  ELSE (CHOOSE t \in initial_data : TRUE) \o <<0>>
    IN Append(resize(copied, MAX_TEXT_LENGTH - 1, 0), 0)

MenuItem(t, i) == [tag |-> t, item |-> i]

----------------------------------------------------------------------------
(* Widgets.  W(w, i) names a control of the dialog window: the list box row *)
(* or menu row i (1-based), a button, or the text field.                    *)

W(w, i) == [w |-> w, i |-> i]

NoAct == W("none", 0)

\* ok_cancel_button
ok_cancel_button(exit_code_, a) ==
    LET after_ok == IF a.w = "OK" THEN Some(0) ELSE exit_code_
    IN IF a.w = "Cancel" THEN Some(1) ELSE after_ok

\* Every listing FileDialogEntries::new can return for p (one per stream).
listings(f, p) == {FileDialogEntries_new(f, p, s) : s \in read_dir(f, p)}

Pass(p, e, i, d, o, c, pan) ==
    [path |-> p, entries |-> e, index |-> i, data |-> d, out |-> o,
     code |-> c, panic |-> pan]

\* Faulty variant: descending keeps the old listing and selection.
list_box_confirmed_stale(f, p, ents, idx, o) ==
    IF has_parent(p) /\ idx = 0
    THEN {Pass(parent(p), l.entries, l.index, <<>>, o, None, FALSE) :
              l \in listings(f, parent(p))}
    ELSE LET sel == selected_path(p, ents, idx)
         IN IF sel.panic THEN {Pass(p, ents, idx, <<>>, o, None, TRUE)}
            ELSE IF sel.file_type = SelectedFile
            THEN {Pass(p, ents, idx, <<>>, o, Some(0), FALSE)}
            ELSE {Pass(sel.path, ents, idx, <<>>, o, None, FALSE)}

\* Faulty variant: the go-up row leads to the root, not to the parent.
list_box_confirmed_to_root(f, p, ents, idx, o) ==
    IF has_parent(p) /\ idx = 0
    THEN {Pass(<<>>, l.entries, l.index, <<>>, o, None, FALSE) :
              l \in listings(f, <<>>)}
    ELSE LET sel == selected_path(p, ents, idx)
         IN IF sel.panic THEN {Pass(p, ents, idx, <<>>, o, None, TRUE)}
            ELSE IF sel.file_type = SelectedFile
            THEN {Pass(p, ents, idx, <<>>, o, Some(0), FALSE)}
            ELSE {Pass(sel.path, l.entries, l.index, <<>>, o, None, FALSE) :
                      l \in listings(f, sel.path)}

\* render_file_dialog, the igListBox branch: the list box has stored the
\* clicked row in entries.index and returned true.
list_box_confirmed(f, p, ents, idx, o) ==
    IF has_parent(p) /\ idx = 0
    THEN {Pass(parent(p), l.entries, l.index, <<>>, o, None, FALSE) :
              l \in listings(f, parent(p))}
    ELSE LET sel == selected_path(p, ents, idx)
         IN IF sel.panic THEN {Pass(p, ents, idx, <<>>, o, None, TRUE)}
            ELSE IF sel.file_type = SelectedFile
            THEN {Pass(p, ents, idx, <<>>, o, Some(0), FALSE)}
            ELSE {Pass(sel.path, l.entries, l.index, <<>>, o, None, FALSE) :
                      l \in listings(f, sel.path)}

\* render_file_dialog, from the buttons on: an accept prints the selection.
file_dialog_finish(r, a) ==
    LET code == ok_cancel_button(r.code, a)
        sel == selected_path(r.path, r.entries, r.index)
    IN IF r.panic THEN r
       ELSE IF code # Some(0) THEN [r EXCEPT !.code = code]
       ELSE IF sel.panic THEN [r EXCEPT !.code = code, !.panic = TRUE]
       ELSE [r EXCEPT !.code = code, !.out = Append(r.out, display(sel.path))]

render_file_dialog(f, p, ents, idx, o, a) ==
    LET listed == IF a.w = "ListBox"
                  THEN list_box_confirmed(f, p, ents, a.i - 1, o)
                  ELSE {Pass(p, ents, idx, <<>>, o, None, FALSE)}
    IN {file_dialog_finish(r, a) : r \in listed}

\* Index of the first 0 byte of the buffer, or its length.
position_of_nul(buf) ==
    LET zeros == {i \in 1..Len(buf) : buf[i] = 0}
    IN IF zeros = {} THEN Len(buf)
       ELSE (CHOOSE i \in zeros : \A j \in zeros : i <= j) - 1

\* igInputText inserting the queued characters at pos: it writes the new
\* text and its terminator within buf_size, or leaves the buffer alone.
input_text_insert(buf, chars, pos) ==
    LET length == position_of_nul(buf)
        text == SubSeq(buf, 1, length)
        edited == SubSeq(text, 1, pos) \o chars \o SubSeq(text, pos + 1, length)
    IN IF pos > length \/ Len(edited) + 1 > Len(buf) THEN buf
       ELSE edited \o <<0>> \o SubSeq(buf, Len(edited) + 2, Len(buf))

\* Faulty variant: an accept prints the whole buffer, padding included.
render_input_dialog_whole(buf, chars, o, a) ==
    LET edited == IF a.w = "Edit" THEN input_text_insert(buf, chars, a.i) ELSE buf
        entered == IF a.w = "Enter" THEN Some(0) ELSE None
        code == ok_cancel_button(entered, a)
    IN {Pass(<<>>, <<>>, 0, edited,
             IF code = Some(0) THEN Append(o, edited) ELSE o,
             code, FALSE)}

render_input_dialog(buf, chars, o, a) ==
    LET edited == IF a.w = "Edit" THEN input_text_insert(buf, chars, a.i) ELSE buf
        entered == IF a.w = "Enter" THEN Some(0) ELSE None
        code == ok_cancel_button(entered, a)
        length == position_of_nul(edited)
    IN {Pass(<<>>, <<>>, 0, edited,
             IF code = Some(0) THEN Append(o, SubSeq(edited, 1, length)) ELSE o,
             code, FALSE)}

\* render_menu_dialog: the for loop over items 1..k.
RECURSIVE menu_loop(_, _, _, _)
menu_loop(its, k, o, a) ==
    IF k = 0 THEN [out |-> o, code |-> None]
    ELSE LET before == menu_loop(its, k - 1, o, a)
         IN IF a.w = "Selectable" /\ a.i = k
            THEN [out |-> Append(before.out, its[k].tag), code |-> Some(0)]
            ELSE before

\* Faulty variant: the label is printed instead of the tag.
render_menu_dialog_label(its, o, a) ==
    LET r == menu_loop([i \in 1..Len(its) |-> MenuItem(its[i].item, its[i].item)],
                       Len(its), o, a)
    IN {Pass(<<>>, <<>>, 0, <<>>, r.out, r.code, FALSE)}

render_menu_dialog(its, o, a) ==
    LET r == menu_loop(its, Len(its), o, a)
    IN {Pass(<<>>, <<>>, 0, <<>>, r.out, r.code, FALSE)}

\* The controls each layout routine creates.
Controls(m, ents, its) ==
    CASE m = "File" -> {W("ListBox", i) : i \in 1..Len(ents)} \cup {W("OK", 0), W("Cancel", 0)}
      [] m = "Input" -> {W("InputText", 0), W("OK", 0), W("Cancel", 0)}
      [] m = "Menu" -> {W("Selectable", i) : i \in 1..Len(its)}

----------------------------------------------------------------------------
(* The world the model explores *)

NAME_A == <<97>>
NAME_B == <<98>>
NAME_C == <<99>>
NAME_UNDECODABLE == <<255>>

\* /            directory
\* /a           directory           (may vanish or be replaced by a file)
\* /a/c         directory that cannot be read
\* /a/<FF>      file whose name is not valid UTF-8
\* /b           file
InitialFs ==
    { Node(<<>>, "dir", TRUE),
      Node(<<NAME_A>>, "dir", TRUE),
      Node(<<NAME_A, NAME_C>>, "dir", FALSE),
      Node(<<NAME_A, NAME_UNDECODABLE>>, "file", TRUE),
      Node(<<NAME_B>>, "file", TRUE) }

Volatile == {<<NAME_A>>}

is_under(q, p) == Len(q) >= Len(p) /\ SubSeq(q, 1, Len(p)) = p

Fill(n) == [i \in 1..n |-> 120]

InitialTexts ==
    { <<104, 105>>, Fill(MAX_TEXT_LENGTH - 1), Fill(MAX_TEXT_LENGTH + 1) }

\* The rows a menu of the model is made of: "yes"/"Confirm", "no"/"Abort" and
\* a second row tagged "no", labelled "Confirm".
TAG_YES == <<121, 101, 115>>
TAG_NO == <<110, 111>>
LABEL_CONFIRM == <<67, 111, 110, 102, 105, 114, 109>>
LABEL_ABORT == <<65, 98, 111, 114, 116>>
MenuItems ==
    { MenuItem(TAG_YES, LABEL_CONFIRM), MenuItem(TAG_NO, LABEL_ABORT),
      MenuItem(TAG_NO, LABEL_CONFIRM) }

Quit == [type |-> "Quit", scancode |-> "", text |-> <<>>]
KeyDown(sc) == [type |-> "KeyDown", scancode |-> sc, text |-> <<>>]
KeyUp(sc) == [type |-> "KeyUp", scancode |-> sc, text |-> <<>>]
TextInput(t) == [type |-> "TextInput", scancode |-> "", text |-> t]
MouseMotion == [type |-> "MouseMotion", scancode |-> "", text |-> <<>>]

Events ==
    { Quit, KeyDown("Escape"), KeyDown("Return"), KeyUp("Return"),
      TextInput(<<120>>), MouseMotion }

Batches == UNION {[1..n -> Events] : n \in 0..MaxQueue}

----------------------------------------------------------------------------
(* Initial states: the dialog Dialog::new built, main about to enter the loop *)

LoopInit ==
    /\ fs = InitialFs
    /\ event_queue = <<>>
    /\ keys_down = {}
    /\ input_chars = <<>>
    /\ mouse_pos = NoAct
    /\ edits = 0
    /\ out = <<>>
    /\ exit_code = 0
    /\ pc = "render1"
    /\ status = None
    /\ act = NoAct
    /\ pass_code = None
    /\ confirm_wait = None
    /\ back_buffer = 0
    /\ draw_data = <<>>
    /\ gl_calls = <<>>
    /\ args = <<>>

\* Dialog::fselect: the path names something that exists (canonicalize).
InitFile ==
    /\ mode = "File"
    /\ \E n \in InitialFs : \E l \in listings(InitialFs, n.path) :
          /\ path = n.path
          /\ entries = l.entries
          /\ index = l.index
    /\ data = <<>>
    /\ items = <<>>

InitInput ==
    /\ mode = "Input"
    /\ path = <<>> /\ entries = <<>> /\ index = 0
    /\ \E initial_data \in {None} \cup {Some(t) : t \in InitialTexts} :
          data = Dialog_inputbox(initial_data)
    /\ items = <<>>

InitMenu ==
    /\ mode = "Menu"
    /\ path = <<>> /\ entries = <<>> /\ index = 0
    /\ data = <<>>
    /\ items \in UNION {[1..n -> MenuItems] : n \in 0..MaxItems}

Init == LoopInit /\ (InitFile \/ InitInput \/ InitMenu)

----------------------------------------------------------------------------
(* Renderer::render: one UI pass *)

\* What the widgets of a pass can report.  imgui has one active item, so at
\* most one widget call of a pass reports an activation: nothing; a click on
\* the button or row under the sampled pointer; Enter in the text field while
\* Return is held; the text field taking the queued characters (Edit, with
\* the cursor at the start or the end of the text).
PassActs ==
    {NoAct}
    \cup {c \in Controls(mode, entries, items) : c = mouse_pos /\ c.w # "InputText"}
    \cup (IF mode = "Input" /\ "Return" \in keys_down THEN {W("Enter", 0)} ELSE {})
    \cup (IF mode = "Input" /\ input_chars # <<>> /\ edits < MaxEdits
          THEN {W("Edit", pos) : pos \in {0, position_of_nul(data)}}
          ELSE {})

Renderer_render(a) ==
    CASE mode = "File" -> render_file_dialog(fs, path, entries, index, out, a)
      [] mode = "Input" -> render_input_dialog(data, input_chars, out, a)
      [] mode = "Menu" -> render_menu_dialog(items, out, a)

\* Faulty variant: the code a pass returns is kept but the loop goes on.
RenderAndCheck_no_break(next) ==
    \E a \in PassActs : \E r \in Renderer_render(a) :
        /\ act' = a
        /\ path' = r.path /\ entries' = r.entries /\ index' = r.index
        /\ data' = r.data
        /\ out' = r.out
        /\ input_chars' = <<>>
        /\ edits' = IF a.w = "Edit" THEN edits + 1 ELSE edits
        /\ pass_code' = r.code
        /\ back_buffer' = IF r.panic THEN back_buffer ELSE back_buffer + 1
        /\ IF r.panic
           THEN pc' = "done" /\ status' = Some(PANIC_STATUS) /\ exit_code' = exit_code
           ELSE /\ pc' = next /\ status' = status
                /\ exit_code' = IF r.code # None THEN CHOOSE c \in r.code : TRUE
                                ELSE exit_code
        /\ UNCHANGED <<mode, items, fs, event_queue, keys_down, mouse_pos,
                       confirm_wait, draw_data, gl_calls, args>>

\* A pass and the test main makes on its result; a panic ends the process.
RenderAndCheck(next) ==
    \E a \in PassActs : \E r \in Renderer_render(a) :
        /\ act' = a
        /\ path' = r.path /\ entries' = r.entries /\ index' = r.index
        /\ data' = r.data
        /\ out' = r.out
        /\ input_chars' = <<>>
        /\ edits' = IF a.w = "Edit" THEN edits + 1 ELSE edits
        /\ pass_code' = r.code
        /\ back_buffer' = IF r.panic THEN back_buffer ELSE back_buffer + 1
        /\ IF r.panic
           THEN pc' = "done" /\ status' = Some(PANIC_STATUS) /\ exit_code' = exit_code
           ELSE IF r.code # None
           THEN pc' = "exit" /\ exit_code' = (CHOOSE c \in r.code : TRUE) /\ status' = status
           ELSE pc' = next /\ exit_code' = exit_code /\ status' = status
        /\ UNCHANGED <<mode, items, fs, event_queue, keys_down, mouse_pos,
                       confirm_wait, draw_data, gl_calls, args>>

\* Faulty variant: an iteration starts at the events, with no pass before.
Render1_skipped ==
    /\ pc = "render1"
    /\ pc' = "gather"
    /\ UNCHANGED <<mode, path, entries, index, data, items, fs, event_queue, keys_down,
                   input_chars, mouse_pos, edits, out, exit_code, status, act, pass_code,
                   confirm_wait, back_buffer, draw_data, gl_calls,
                   args>>

Render1 == pc = "render1" /\ RenderAndCheck("gather")

Render2 == pc = "render2" /\ RenderAndCheck("swap")

----------------------------------------------------------------------------
(* main: the loop *)

\* Index of the first Return key-down of a batch, 0 when it has none.
first_return(batch) ==
    LET at == {i \in 1..Len(batch) : batch[i] = KeyDown("Return")}
    IN IF at = {} THEN 0 ELSE CHOOSE i \in at : \A j \in at : i <= j

\* History of the first confirming key press of an input box: k events were
\* queued before it, so it has k + 1 event steps to wait for, the one of the
\* iteration that queues it being the first.
ConfirmQueued(k, batch) ==
    IF mode = "Input" /\ confirm_wait = None /\ first_return(batch) # 0
    THEN confirm_wait' = Some(k + 1)
    ELSE UNCHANGED confirm_wait

\* Faulty variant: new events are put in front of the queued ones.
Gather_front ==
    /\ pc = "gather"
    /\ \E batch \in Batches :
          /\ event_queue = <<>> => batch # <<>>
          /\ Len(event_queue) + Len(batch) <= MaxQueue
          /\ event_queue' = batch \o event_queue
          /\ ConfirmQueued(Len(event_queue) + first_return(batch) - 1, batch)
    /\ pc' = "dequeue"
    /\ UNCHANGED <<mode, path, entries, index, data, items, fs, keys_down, input_chars,
                   mouse_pos, edits, out, exit_code, status, act, pass_code,
                   back_buffer, draw_data, gl_calls, args>>

\* Faulty variant: no wait_event, the queue is only polled.
Gather_polling ==
    /\ pc = "gather"
    /\ \E batch \in Batches :
          /\ Len(event_queue) + Len(batch) <= MaxQueue
          /\ event_queue' = event_queue \o batch
          /\ ConfirmQueued(Len(event_queue) + first_return(batch) - 1, batch)
    /\ pc' = "dequeue"
    /\ UNCHANGED <<mode, path, entries, index, data, items, fs, keys_down, input_chars,
                   mouse_pos, edits, out, exit_code, status, act, pass_code,
                   back_buffer, draw_data, gl_calls, args>>

\* wait_event when the queue is empty, then poll_event until it returns None.
Gather ==
    /\ pc = "gather"
    /\ \E batch \in Batches :
          /\ event_queue = <<>> => batch # <<>>
          /\ Len(event_queue) + Len(batch) <= MaxQueue
          /\ event_queue' = event_queue \o batch
          /\ ConfirmQueued(Len(event_queue) + first_return(batch) - 1, batch)
    /\ pc' = "dequeue"
    /\ UNCHANGED <<mode, path, entries, index, data, items, fs, keys_down, input_chars,
                   mouse_pos, edits, out, exit_code, status, act, pass_code,
                   back_buffer, draw_data, gl_calls, args>>

\* Faulty variant: a quit event is taken like any other window event.
breaks_on_escape(event) == event = KeyDown("Escape")

\* The arms of the match that break out of the loop.
breaks(event) == event.type = "Quit" \/ event = KeyDown("Escape")

\* Faulty variant: the newest event is removed and applied.
Dequeue_newest ==
    /\ pc = "dequeue"
    /\ IF event_queue = <<>>
       THEN /\ pc' = "done" /\ status' = Some(PANIC_STATUS)
            /\ UNCHANGED <<event_queue, keys_down, input_chars>>
       ELSE LET event == event_queue[Len(event_queue)]
            IN /\ event_queue' = SubSeq(event_queue, 1, Len(event_queue) - 1)
               /\ status' = status
               /\ pc' = IF breaks(event) THEN "exit" ELSE "mouse"
               /\ CASE event.type = "KeyDown" ->
                         /\ keys_down' = keys_down \cup {event.scancode}
                         /\ UNCHANGED input_chars
                    [] event.type = "KeyUp" ->
                         /\ keys_down' = keys_down \ {event.scancode}
                         /\ UNCHANGED input_chars
                    [] event.type = "TextInput" ->
                         /\ input_chars' = IF \E i \in 1..Len(event.text) : event.text[i] = 0
                                           THEN input_chars
                                           ELSE input_chars \o event.text
                         /\ UNCHANGED keys_down
                    [] OTHER ->
                         UNCHANGED <<keys_down, input_chars>>
    /\ confirm_wait' = {w - 1 : w \in confirm_wait \ {0}} \cup (confirm_wait \cap {0})
    /\ UNCHANGED <<mode, path, entries, index, data, items, fs, mouse_pos, edits, out,
                   exit_code, act, pass_code, back_buffer, draw_data, gl_calls, args>>

\* match event_queue.remove(0); remove panics on an empty queue.  Of the
\* scancodes only Return and Escape are followed (the modifier flags that
\* set_mod_state copies are not read by this program).
Dequeue ==
    /\ pc = "dequeue"
    /\ IF event_queue = <<>>
       THEN /\ pc' = "done" /\ status' = Some(PANIC_STATUS)
            /\ UNCHANGED <<event_queue, keys_down, input_chars>>
       ELSE LET event == Head(event_queue)
            IN /\ event_queue' = Tail(event_queue)
               /\ status' = status
               /\ pc' = IF breaks(event) THEN "exit" ELSE "mouse"
               /\ CASE event.type = "KeyDown" ->
                         /\ keys_down' = keys_down \cup {event.scancode}
                         /\ UNCHANGED input_chars
                    [] event.type = "KeyUp" ->
                         /\ keys_down' = keys_down \ {event.scancode}
                         /\ UNCHANGED input_chars
                    [] event.type = "TextInput" ->
                         /\ input_chars' = IF \E i \in 1..Len(event.text) : event.text[i] = 0
                                           THEN input_chars
                                           ELSE input_chars \o event.text
                         /\ UNCHANGED keys_down
                    [] OTHER ->
                         UNCHANGED <<keys_down, input_chars>>
    /\ confirm_wait' = {w - 1 : w \in confirm_wait \ {0}} \cup (confirm_wait \cap {0})
    /\ UNCHANGED <<mode, path, entries, index, data, items, fs, mouse_pos, edits, out,
                   exit_code, act, pass_code, back_buffer, draw_data, gl_calls, args>>

\* sdl.mouse().mouse_state(): the pointer is wherever the user has it.
SampleMouse ==
    /\ pc = "mouse"
    /\ mouse_pos' \in {NoAct} \cup Controls(mode, entries, items)
    /\ pc' = "render2"
    /\ UNCHANGED <<mode, path, entries, index, data, items, fs, event_queue, keys_down,
                   input_chars, edits, out, exit_code, status, act, pass_code,
                   confirm_wait, back_buffer, draw_data, gl_calls, args>>

\* window.gl_swap_window()
Swap ==
    /\ pc = "swap"
    /\ pc' = "render1"
    /\ back_buffer' = 0
    /\ UNCHANGED <<mode, path, entries, index, data, items, fs, event_queue, keys_down,
                   input_chars, mouse_pos, edits, out, exit_code, status, act, pass_code,
                   confirm_wait, draw_data, gl_calls, args>>

\* shutdown(); process::exit(exit_code)
Exit ==
    /\ pc = "exit"
    /\ status' = Some(exit_code)
    /\ pc' = "done"
    /\ UNCHANGED <<mode, path, entries, index, data, items, fs, event_queue, keys_down,
                   input_chars, mouse_pos, edits, out, exit_code, act, pass_code,
                   confirm_wait, back_buffer, draw_data, gl_calls, args>>

----------------------------------------------------------------------------
(* The environment: the filesystem changes under the dialog.  Only a UI pass *)
(* reads it, so a change is taken right before a pass.                       *)

FsVanish ==
    /\ pc \in {"render1", "render2"}
    /\ \E p \in Volatile :
          /\ exists(fs, p)
          /\ fs' = {n \in fs : ~is_under(n.path, p)}
    /\ UNCHANGED <<mode, path, entries, index, data, items, event_queue, keys_down,
                   input_chars, mouse_pos, edits, out, exit_code, pc, status, act, pass_code,
                   confirm_wait, back_buffer, draw_data, gl_calls, args>>

FsReplaceByFile ==
    /\ pc \in {"render1", "render2"}
    /\ \E p \in Volatile :
          /\ is_dir(fs, p)
          /\ fs' = {n \in fs : ~is_under(n.path, p)} \cup {Node(p, "file", TRUE)}
    /\ UNCHANGED <<mode, path, entries, index, data, items, event_queue, keys_down,
                   input_chars, mouse_pos, edits, out, exit_code, pc, status, act, pass_code,
                   confirm_wait, back_buffer, draw_data, gl_calls, args>>

Next ==
    \/ Render1
    \/ Gather
    \/ Dequeue
    \/ SampleMouse
    \/ Render2
    \/ Swap
    \/ Exit
    \/ FsVanish
    \/ FsReplaceByFile

Spec == Init /\ [][Next]_vars

----------------------------------------------------------------------------
(* The Directory Lister on its own: FileDialogEntries::new applied to any   *)
(* path of any filesystem of a family of small directories.                 *)

NAME_AB == <<97, 46, 98>>
NAME_E_ACUTE == <<195, 169>>
NAME_D == <<100>>
NAME_MISSING == <<109>>

\* The children a directory of the family may hold: name and possible kinds.
ChildKinds ==
    [n \in {NAME_A, NAME_AB, NAME_UNDECODABLE, UP_ONE_LEVEL, NAME_E_ACUTE} |->
        IF n \in {UP_ONE_LEVEL, NAME_E_ACUTE} THEN {"absent", "file"}
        ELSE {"absent", "file", "dir"}]

ChildSets == {k \in [DOMAIN ChildKinds -> {"absent", "file", "dir"}] :
                 \A n \in DOMAIN ChildKinds : k[n] \in ChildKinds[n]}

Populate(dir, k) == {Node(push(dir, n), k[n], TRUE) : n \in {m \in DOMAIN k : k[m] # "absent"}}

ListerFilesystems ==
    {{Node(<<>>, "dir", TRUE)} \cup Populate(<<>>, k) : k \in ChildSets}
    \cup {{Node(<<>>, "dir", TRUE), Node(<<NAME_D>>, "dir", r)} \cup Populate(<<NAME_D>>, k) :
             k \in ChildSets, r \in BOOLEAN}

ListerPaths(f) == {n.path : n \in f} \cup {<<NAME_MISSING>>}

ListerInit ==
    /\ mode = "File"
    /\ fs \in ListerFilesystems
    /\ path = <<>>
    /\ \E l \in listings(fs, <<>>) : entries = l.entries /\ index = l.index
    /\ data = <<>> /\ items = <<>>
    /\ event_queue = <<>> /\ keys_down = {} /\ input_chars = <<>> /\ mouse_pos = NoAct
    /\ edits = 0 /\ out = <<>> /\ exit_code = 0 /\ status = None
    /\ act = NoAct /\ pass_code = None
    /\ confirm_wait = None
    /\ back_buffer = 0 /\ draw_data = <<>> /\ gl_calls = <<>> /\ args = <<>>
    /\ pc = "lister"

ListDir ==
    /\ pc = "lister"
    /\ \E p \in ListerPaths(fs) : \E l \in listings(fs, p) :
          /\ path' = p
          /\ entries' = l.entries
          /\ index' = l.index
    /\ UNCHANGED <<mode, data, items, fs, event_queue, keys_down, input_chars, mouse_pos,
                   edits, out, exit_code, pc, status, act, pass_code,
                   confirm_wait, back_buffer, draw_data, gl_calls, args>>

SpecLister == ListerInit /\ [][ListDir]_vars

----------------------------------------------------------------------------
(* Navigation on its own: a file dialog opened on "/" of any filesystem of  *)
(* a family of small trees that does not change, the user clicking the     *)
(* go-up row or a directory row of the list box in pass after pass.         *)

NAME_0 == <<48>>

\* /            directory
\* /0           file, or absent
\* /a           directory, readable or not
\* /a/a         absent, a file, or a directory, readable or not
\* /a/b         directory, or absent
\* /a/a/c       directory, or absent
NavFilesystems ==
    {f \in {{Node(<<>>, "dir", TRUE), Node(<<NAME_A>>, "dir", r)}
               \cup zero \cup first \cup second \cup leaf :
            r \in BOOLEAN,
            zero \in {{}, {Node(<<NAME_0>>, "file", TRUE)}},
            first \in {{}, {Node(<<NAME_A, NAME_A>>, "file", TRUE)},
                       {Node(<<NAME_A, NAME_A>>, "dir", TRUE)},
                       {Node(<<NAME_A, NAME_A>>, "dir", FALSE)}},
            second \in {{}, {Node(<<NAME_A, NAME_B>>, "dir", TRUE)}},
            leaf \in {{}, {Node(<<NAME_A, NAME_A, NAME_C>>, "dir", TRUE)}}} :
        exists(f, <<NAME_A, NAME_A, NAME_C>>) => is_dir(f, <<NAME_A, NAME_A>>)}

NavInit ==
    /\ mode = "File"
    /\ fs \in NavFilesystems
    /\ path = <<>>
    /\ \E l \in listings(fs, <<>>) : entries = l.entries /\ index = l.index
    /\ data = <<>> /\ items = <<>>
    /\ event_queue = <<>> /\ keys_down = {} /\ input_chars = <<>> /\ mouse_pos = NoAct
    /\ edits = 0 /\ out = <<>> /\ exit_code = 0 /\ status = None
    /\ act = NoAct /\ pass_code = None
    /\ confirm_wait = None
    /\ back_buffer = 0 /\ draw_data = <<>> /\ gl_calls = <<>> /\ args = <<>>
    /\ pc = "nav"

\* The rows a navigation clicks: the go-up row and the directory rows.
NavRows(p, ents) ==
    {i \in 1..Len(ents) : (has_parent(p) /\ i = 1) \/ ends_with_slash(ents[i])}

\* A UI pass in which the list box reports a click on such a row.
Navigate ==
    /\ pc = "nav"
    /\ \E i \in NavRows(path, entries) :
       \E r \in render_file_dialog(fs, path, entries, index, out, W("ListBox", i)) :
          /\ act' = W("ListBox", i)
          /\ path' = r.path /\ entries' = r.entries /\ index' = r.index
          /\ out' = r.out
          /\ pass_code' = r.code
          /\ status' = IF r.panic THEN Some(PANIC_STATUS) ELSE status
          /\ pc' = IF r.panic \/ r.code # None THEN "done" ELSE "nav"
    /\ UNCHANGED <<mode, data, items, fs, event_queue, keys_down, input_chars, mouse_pos,
                   edits, exit_code, confirm_wait, back_buffer, draw_data, gl_calls, args>>

SpecNav == NavInit /\ [][Navigate]_vars

----------------------------------------------------------------------------
(* The Draw Bridge on its own: Renderer::render_draw_lists applied to any   *)
(* ImDrawData of a family of small frames.  An f32 coordinate is modelled   *)
(* in half pixels: the number n stands for n / 2.                           *)

f32(n) == 2 * n

\* f32 as c_int: the fraction is dropped, towards zero.
as_c_int(v) == IF v >= 0 THEN v \div 2 ELSE -((-v) \div 2)

ImVec4(x, y, z, w) == [x |-> x, y |-> y, z |-> z, w |-> w]

ImDrawCmd(elem_count, clip_rect) == [elem_count |-> elem_count, clip_rect |-> clip_rect]

\* A draw list: the number of vertices of its vertex buffer, its commands.
ImDrawList(vtx, cmds) == [vtx_buffer_size |-> vtx, cmd_buffer |-> cmds]

GlCall(name, arguments) == [call |-> name, args |-> arguments]

BufferData(size) == GlCall("BufferData", <<size>>)

Scissor(x, y, width, height) == GlCall("Scissor", <<x, y, width, height>>)

DrawElements(count, indices) == GlCall("DrawElements", <<count, indices>>)

\* Faulty variant: the rectangle is passed on with the UI's vertical axis.
scissor_uninverted(clip_rect) ==
    Scissor(as_c_int(clip_rect.x),
            as_c_int(clip_rect.y),
            as_c_int(clip_rect.z - clip_rect.x),
            as_c_int(clip_rect.w - clip_rect.y))

\* The gl::Scissor call of a draw command.
scissor(clip_rect) ==
    Scissor(as_c_int(clip_rect.x),
            as_c_int(f32(FRAMEBUFFER_HEIGHT) - clip_rect.w),
            as_c_int(clip_rect.z - clip_rect.x),
            as_c_int(clip_rect.w - clip_rect.y))

\* Faulty variant: a command whose scissor rectangle is empty is not drawn.
RECURSIVE draw_commands_nonempty(_, _, _)
draw_commands_nonempty(draw_list, draw_command_index, index_offset) ==
    IF draw_command_index >= Len(draw_list.cmd_buffer) THEN <<>>
    ELSE LET draw_command == draw_list.cmd_buffer[draw_command_index + 1]
             index_size == draw_command.elem_count
             rect == scissor(draw_command.clip_rect)
         IN (IF rect.args[3] = 0 \/ rect.args[4] = 0 THEN <<>>
             ELSE <<rect, DrawElements(index_size, index_offset)>>)
            \o draw_commands_nonempty(draw_list, draw_command_index + 1,
                                      index_offset + index_size)

\* Faulty variant: the cursor into the index buffer is never advanced.
RECURSIVE draw_commands_cursor_kept(_, _, _)
draw_commands_cursor_kept(draw_list, draw_command_index, index_offset) ==
    IF draw_command_index >= Len(draw_list.cmd_buffer) THEN <<>>
    ELSE LET draw_command == draw_list.cmd_buffer[draw_command_index + 1]
             index_size == draw_command.elem_count
         IN <<scissor(draw_command.clip_rect), DrawElements(index_size, index_offset)>>
            \o draw_commands_cursor_kept(draw_list, draw_command_index + 1,
                                         index_offset)

\* render_draw_lists: the inner loop from draw_command_index on (0-based),
\* index_offset being the cursor into the index buffer.
RECURSIVE draw_commands(_, _, _)
draw_commands(draw_list, draw_command_index, index_offset) ==
    IF draw_command_index >= Len(draw_list.cmd_buffer) THEN <<>>
    ELSE LET draw_command == draw_list.cmd_buffer[draw_command_index + 1]
             index_size == draw_command.elem_count
         IN <<scissor(draw_command.clip_rect), DrawElements(index_size, index_offset)>>
            \o draw_commands(draw_list, draw_command_index + 1,
                             index_offset + index_size)

\* render_draw_lists: the outer loop from draw_list_index on (0-based).
RECURSIVE draw_lists(_, _)
draw_lists(cmd_lists, draw_list_index) ==
    IF draw_list_index >= Len(cmd_lists) THEN <<>>
    ELSE LET draw_list == cmd_lists[draw_list_index + 1]
             vertex_buffer_size == draw_list.vtx_buffer_size * SIZE_OF_IM_DRAW_VERT
         IN <<BufferData(vertex_buffer_size)>>
            \o draw_commands(draw_list, 0, 0)
            \o draw_lists(cmd_lists, draw_list_index + 1)

\* The buffer upload, scissor and draw calls of render_draw_lists, in order
\* (the state it sets up before the loops is the same for every frame).
render_draw_lists(cmd_lists) == draw_lists(cmd_lists, 0)

\* The commands of the family: a rectangle over the framebuffer whose left
\* edge is at -0.5; the rectangle (10, 20.5)-(10.5, 50.5); imgui's null clip
\* rectangle.  Like every clip rectangle imgui hands out, they have z >= x
\* and w >= y.
DrawCmds ==
    { ImDrawCmd(6, ImVec4(-1, 0, f32(800), f32(600))),
      ImDrawCmd(3, ImVec4(f32(10), 41, 21, 101)),
      ImDrawCmd(9, ImVec4(f32(-8192), f32(-8192), f32(8192), f32(8192))) }

DrawLists ==
    {ImDrawList(4 * Len(cmds), cmds) :
        cmds \in UNION {[1..n -> DrawCmds] : n \in 0..MaxCmds}}

DrawFrames == UNION {[1..n -> DrawLists] : n \in 0..MaxLists}

DrawInit ==
    /\ draw_data \in DrawFrames
    /\ gl_calls = <<>>
    /\ pc = "draw"
    /\ mode = "File" /\ fs = InitialFs /\ path = <<>> /\ entries = <<>> /\ index = 0
    /\ data = <<>> /\ items = <<>>
    /\ event_queue = <<>> /\ keys_down = {} /\ input_chars = <<>> /\ mouse_pos = NoAct
    /\ edits = 0 /\ out = <<>> /\ exit_code = 0 /\ status = None
    /\ act = NoAct /\ pass_code = None
    /\ confirm_wait = None
    /\ back_buffer = 0 /\ args = <<>>

\* igRender calling io.render_draw_lists_fn
RenderDrawLists ==
    /\ pc = "draw"
    /\ gl_calls' = render_draw_lists(draw_data)
    /\ pc' = "drawn"
    /\ UNCHANGED <<mode, path, entries, index, data, items, fs, event_queue, keys_down,
                   input_chars, mouse_pos, edits, out, exit_code, status, act, pass_code,
                   confirm_wait, back_buffer, draw_data, args>>

SpecDraw == DrawInit /\ [][RenderDrawLists]_vars

----------------------------------------------------------------------------
(* The command line on its own: Dialog::new applied to the values clap has  *)
(* matched, for a family of command lines clap accepts.                     *)

\* u32::MAX in decimal digits.
U32_MAX == <<52, 50, 57, 52, 57, 54, 55, 50, 57, 53>>

RECURSIVE strip_zeros(_)
strip_zeros(s) ==
    IF Len(s) > 1 /\ Head(s) = 48 THEN strip_zeros(Tail(s)) ELSE s

\* a > b for numbers written in decimal digits without leading zeros.
exceeds(a, b) ==
    \/ Len(a) > Len(b)
    \/ /\ Len(a) = Len(b)
       /\ \E k \in 1..Len(a) :
             /\ \A i \in 1..(k - 1) : a[i] = b[i]
             /\ a[k] > b[k]

\* str::parse::<u32>: the number (kept in decimal digits), or None for an
\* empty string, a character that is no digit, or a number above u32::MAX.
parse_u32(s) ==
    IF s = <<>> \/ \E i \in 1..Len(s) : s[i] < 48 \/ s[i] > 57 THEN None
    ELSE IF exceeds(strip_zeros(s), U32_MAX) THEN None
    ELSE Some(strip_zeros(s))

\* Path::new of an absolute path string: its components.
RECURSIVE Path_new(_, _)
Path_new(s, name) ==
    IF s = <<>> THEN (IF name = <<>> THEN <<>> ELSE <<name>>)
    ELSE IF Head(s) = SLASH
    THEN (IF name = <<>> THEN <<>> ELSE <<name>>) \o Path_new(Tail(s), <<>>)
    ELSE Path_new(Tail(s), Append(name, Head(s)))

\* What Dialog::new comes to: a Dialog, the help text, or a panic.
Built(m, p, e, d, its) ==
    [outcome |-> "dialog", mode |-> m, path |-> p, entries |-> e.entries,
     index |-> e.index, data |-> d, items |-> its]

Usage == [outcome |-> "usage"]

Panicked == [outcome |-> "panic"]

\* The two parse().unwrap() of width and height (and menu's of menu_height).
parses(values, from, to) ==
    \A i \in from..to : i <= Len(values) /\ parse_u32(values[i]) # None

\* Dialog::fselect on the filesystem f.
Dialog_fselect(f, values) ==
    LET p == Path_new(values[1], <<>>)
    IN IF values = <<>> \/ ~exists(f, p) \/ ~parses(values, 2, 3) THEN {Panicked}
       ELSE {Built("File", p, l, <<>>, <<>>) : l \in listings(f, p)}

\* Dialog::inputbox: the three unwraps before the buffer is built.
Dialog_inputbox_checked(values) ==
    IF values = <<>> \/ ~parses(values, 2, 3) THEN {Panicked}
    ELSE {Built("Input", <<>>, FileDialogEntries_none, 
                Dialog_inputbox(IF Len(values) >= 4 THEN Some(values[4]) ELSE None),
                <<>>)}

\* Faulty variant: a tag without an item ends the list like the end of the
\* values does.
RECURSIVE menu_items_lenient(_, _)
menu_items_lenient(values, its) ==
    IF Len(values) < 2 THEN Some(its)
    ELSE menu_items_lenient(SubSeq(values, 3, Len(values)),
                            Append(its, MenuItem(values[1], values[2])))

\* Dialog::menu: the loop over the values left, its being the items pushed
\* so far; None when a tag has no item.
RECURSIVE menu_items(_, _)
menu_items(values, its) ==
    IF values = <<>> THEN Some(its)
    ELSE IF Len(values) = 1 THEN None
    ELSE menu_items(SubSeq(values, 3, Len(values)),
                    Append(its, MenuItem(values[1], values[2])))

\* Dialog::menu, and the test Dialog::new makes on what it returns.
Dialog_menu(values) ==
    IF values = <<>> \/ ~parses(values, 2, 4) THEN {Panicked}
    ELSE LET its == menu_items(SubSeq(values, 5, Len(values)), <<>>)
         IN IF its = None THEN {Usage}
            ELSE {Built("Menu", <<>>, FileDialogEntries_none, <<>>,
                        CHOOSE i \in its : TRUE)}

\* Dialog::new: a[o] is matches.values_of(o).
Dialog_new(f, a) ==
    IF a.fselect # None THEN Dialog_fselect(f, CHOOSE v \in a.fselect : TRUE)
    ELSE IF a.inputbox # None
    THEN Dialog_inputbox_checked(CHOOSE v \in a.inputbox : TRUE)
    ELSE IF a.menu # None THEN Dialog_menu(CHOOSE v \in a.menu : TRUE)
    ELSE {Usage}

\* What app.write_help wrote (the text is clap's; this stands for it).
HELP_STRING == <<85, 83, 65, 71, 69>>

PROMPT == <<80>>
NUMBER == <<52, 48>>
BIG_NUMBER == <<52, 50, 57, 52, 57, 54, 55, 50, 57, 54>>
NOT_A_NUMBER == <<120>>

\* The values that follow menu_height in the family.
ItemValues == {TAG_YES, TAG_NO, LABEL_CONFIRM}

NoArgs == [fselect |-> None, inputbox |-> None, menu |-> None]

\* --menu takes three values or more.
MenuValues ==
    {<<PROMPT, w, h>> : w \in {NUMBER, NOT_A_NUMBER}, h \in {NUMBER, BIG_NUMBER}}
    \cup {<<PROMPT, w, NUMBER, r>> \o rest :
             w \in {NUMBER, NOT_A_NUMBER}, r \in {NUMBER, BIG_NUMBER},
             rest \in UNION {[1..n -> ItemValues] : n \in 0..(2 * MaxItems + 1)}}

\* --inputbox takes three or four values.
InputboxValues ==
    {<<PROMPT, NUMBER, h>> : h \in {NUMBER, NOT_A_NUMBER}}
    \cup {<<PROMPT, NUMBER, NUMBER, t>> : t \in InitialTexts}

\* --fselect takes three values: a directory, a file, a path to nothing.
FselectValues ==
    {<<p, NUMBER, NUMBER>> :
        p \in {<<SLASH>>, <<SLASH>> \o NAME_A, <<SLASH>> \o NAME_B,
               <<SLASH>> \o NAME_MISSING}}

ArgLists ==
    {NoArgs}
    \cup {[NoArgs EXCEPT !.menu = Some(v)] : v \in MenuValues}
    \cup {[NoArgs EXCEPT !.inputbox = Some(v)] : v \in InputboxValues}
    \cup {[NoArgs EXCEPT !.fselect = Some(v)] : v \in FselectValues}
    \cup {[fselect |-> x, inputbox |-> Some(<<PROMPT, NUMBER, NUMBER>>),
           menu |-> Some(<<PROMPT, NUMBER, NUMBER, NUMBER, TAG_YES>>)] :
             x \in {None, Some(<<(<<SLASH>>), NUMBER, NUMBER>>)}}

ArgsInit ==
    /\ args \in ArgLists
    /\ pc = "new"
    /\ mode = "none" /\ fs = InitialFs /\ path = <<>> /\ entries = <<>> /\ index = 0
    /\ data = <<>> /\ items = <<>>
    /\ event_queue = <<>> /\ keys_down = {} /\ input_chars = <<>> /\ mouse_pos = NoAct
    /\ edits = 0 /\ out = <<>> /\ exit_code = 0 /\ status = None
    /\ act = NoAct /\ pass_code = None
    /\ confirm_wait = None
    /\ back_buffer = 0 /\ draw_data = <<>> /\ gl_calls = <<>>

\* let mut dialog = Dialog::new(): the dialog is built, or usage prints the
\* help text and exits with 0, or an unwrap panics.
DialogNew ==
    /\ pc = "new"
    /\ \E d \in Dialog_new(fs, args) :
          CASE d.outcome = "dialog" ->
                  /\ mode' = d.mode /\ path' = d.path /\ entries' = d.entries
                  /\ index' = d.index /\ data' = d.data /\ items' = d.items
                  /\ pc' = "built"
                  /\ UNCHANGED <<out, status>>
            [] d.outcome = "usage" ->
                  /\ out' = Append(out, HELP_STRING)
                  /\ status' = Some(0)
                  /\ pc' = "done"
                  /\ UNCHANGED <<mode, path, entries, index, data, items>>
            [] OTHER ->
                  /\ status' = Some(PANIC_STATUS)
                  /\ pc' = "done"
                  /\ UNCHANGED <<mode, path, entries, index, data, items, out>>
    /\ UNCHANGED <<fs, event_queue, keys_down, input_chars, mouse_pos, edits, exit_code,
                   act, pass_code, confirm_wait, back_buffer,
                   draw_data, gl_calls, args>>

SpecArgs == ArgsInit /\ [][DialogNew]_vars

----------------------------------------------------------------------------
(* Vocabulary of the properties *)

\* A step that is a UI pass (the filesystem steps leave pc alone).
PassStep == pc \in {"render1", "render2"} /\ pc' # pc

\* FileDialogEntries::new gets past its three early returns on p.
Listable(f, p) == exists(f, p) /\ is_dir(f, p) /\ node_at(f, p).readable

DecodableChildren(f, p) == {n \in children(f, p) : to_str_ok(file_name(n))}

Marked(n) == IF n.kind = "dir" THEN file_name(n) \o <<SLASH>> ELSE file_name(n)

\* a <= b in the order of the raw bytes.
BytesLeq(a, b) ==
    \/ Len(a) <= Len(b) /\ \A i \in 1..Len(a) : a[i] = b[i]
    \/ \E k \in 1..Len(a) :
          /\ k <= Len(b)
          /\ \A i \in 1..(k - 1) : a[i] = b[i]
          /\ a[k] < b[k]

\* Rows of the list box (1-based): the synthetic go-up row, a directory row,
\* a file row.
IsGoUpRow(p, i) == has_parent(p) /\ i = 1

IsDirRow(p, ents, i) ==
    i \in 1..Len(ents) /\ ~IsGoUpRow(p, i) /\ ends_with_slash(ents[i])

IsFileRow(p, ents, i) ==
    i \in 1..Len(ents) /\ ~IsGoUpRow(p, i) /\ ~ends_with_slash(ents[i])

\* The listing below the synthetic row.
Below(p, ents) == SubSeq(ents, (IF has_parent(p) THEN 2 ELSE 1), Len(ents))

----------------------------------------------------------------------------
(* Properties *)

\* C1: once an Escape key-down has been dequeued and applied, the process
\* ends with exit code 1, in every variant.
C1_EscapeExitsWithOne ==
    (pc = "done" /\ "Escape" \in keys_down) => status = Some(1)

\* What the loop does instead: Escape leaves exit_code at its initial 0.
EscapeExitsWithZero ==
    (pc = "done" /\ "Escape" \in keys_down) => (status = Some(0) /\ out = <<>>)

\* C2: for a terminated session, exit code 0 means exactly one result line
\* was written and exit code 1 means none was.
C2_ExitCodeTellsOutcome ==
    pc = "done" =>
        /\ status = Some(0) => Len(out) = 1
        /\ status = Some(1) => out = <<>>

\* The part of C2 the code keeps: a pass that returned a code.
PassCodeTellsOutcome ==
    (pc = "done" /\ pass_code # None /\ status # Some(PANIC_STATUS)) =>
        /\ status = pass_code
        /\ status = Some(0) => Len(out) = 1
        /\ status = Some(1) => out = <<>>

\* C3: every variant offers a cancel control in its UI pass, and taking it
\* makes the pass return 1 with nothing printed.
C3_EveryVariantOffersCancel ==
    /\ W("Cancel", 0) \in Controls(mode, entries, items)
    /\ act = W("Cancel", 0) => (pass_code = Some(1) /\ out = <<>>)

\* What holds of the menu instead: no run of it ends with exit code 1.
MenuNeverExitsWithOne == mode = "Menu" => status # Some(1)

\* C4: selecting row N of a menu prints exactly the line tag_N and the pass
\* returns 0, whatever the other rows hold.
C4_MenuRowPrintsItsTag ==
    (mode = "Menu" /\ act.w = "Selectable") =>
        /\ out = <<items[act.i].tag>>
        /\ pass_code = Some(0)
        /\ exit_code = 0
        /\ pc \in {"exit", "done"}

C4_Witness ==
    /\ mode = "Menu" /\ pc = "done" /\ status = Some(0)
    /\ Len(items) >= 2
    /\ act = W("Selectable", 2)
    /\ items[1].tag = items[2].tag
    /\ items[1].item # items[2].item

\* C5: with a parent and the go-up row selected, no confirm action (a click
\* on the row, the OK button) resolves the dialog or prints: the dialog
\* moves to the parent, relists it and selects row 0.
C5_GoUpNeverResolves ==
    [][(/\ mode = "File" /\ PassStep
        /\ has_parent(path) /\ entries # <<>>
        /\ \/ act' = W("ListBox", 1)
           \/ act' = W("OK", 0) /\ index = 0)
       => (/\ pass_code' = None
           /\ out' = out
           /\ path' = parent(path)
           /\ entries' \in {l.entries : l \in listings(fs, parent(path))}
           /\ index' = 0)]_vars

\* The part of C5 the code keeps: the click on the go-up row.
GoUpByListBox ==
    [][(/\ mode = "File" /\ PassStep
        /\ has_parent(path) /\ entries # <<>>
        /\ act' = W("ListBox", 1))
       => (/\ pass_code' = None
           /\ out' = out
           /\ path' = parent(path)
           /\ entries' \in {l.entries : l \in listings(fs, parent(path))}
           /\ index' = 0)]_vars

\* C6: confirming a file row (by a click on it, or by OK while it is
\* selected) resolves with code 0 and prints the absolute path currentPath
\* joined with the row's name, leaving currentPath and entries alone.
C6_FileConfirmResolves ==
    [][\A i \in 1..Len(entries) :
        (/\ mode = "File" /\ PassStep
         /\ IsFileRow(path, entries, i)
         /\ \/ act' = W("ListBox", i)
            \/ act' = W("OK", 0) /\ index = i - 1)
        => (/\ pass_code' = Some(0)
            /\ exit_code' = 0
            /\ pc' = "exit"
            /\ out' = Append(out, display(Append(path, entries[i])))
            /\ Head(out'[Len(out')]) = SLASH
            /\ path' = path
            /\ entries' = entries)]_vars

\* The OK button as the confirming action of a file row.
C6_ByOkReached ==
    /\ mode = "File" /\ pc = "done" /\ status = Some(0)
    /\ act = W("OK", 0)
    /\ IsFileRow(path, entries, index + 1)
    /\ out = <<display(Append(path, entries[index + 1]))>>

C6_Witness ==
    /\ mode = "File" /\ pc = "done" /\ status = Some(0)
    /\ act = W("ListBox", 2)
    /\ path = <<>>
    /\ out = << <<SLASH>> \o NAME_B >>

C8_GoUpIffParent ==
    is_dir(fs, path) =>
        ((/\ entries # <<>>
          /\ entries[1] = UP_ONE_LEVEL
          /\ Len(entries) = Cardinality(DecodableChildren(fs, path)) + 1)
         <=> has_parent(path))

\* C8 as amended: for a directory the lister can stat and enumerate, the
\* synthetic go-up entry is at index 0 iff the directory has a parent, and
\* it is at no other index (an equal string further down is a child of that
\* name); a path the lister cannot list yields the empty listing.
C8_GoUpIffParentWhenListed ==
    /\ Listable(fs, path) =>
          /\ Len(entries) = Cardinality(DecodableChildren(fs, path))
                              + (IF has_parent(path) THEN 1 ELSE 0)
          /\ has_parent(path) => entries[1] = UP_ONE_LEVEL
          /\ \A i \in 1..Len(Below(path, entries)) :
                Below(path, entries)[i] = UP_ONE_LEVEL =>
                    \E n \in children(fs, path) :
                        file_name(n) = UP_ONE_LEVEL /\ n.kind = "file"
    /\ ~Listable(fs, path) => entries = <<>>
    /\ index = 0

C8_Witness ==
    /\ pc = "lister"
    /\ Listable(fs, path) /\ has_parent(path)
    /\ Len(entries) >= 3
    /\ entries[1] = UP_ONE_LEVEL
    /\ entries[2] = UP_ONE_LEVEL

\* C9: for a readable directory, the listing below the go-up entry holds one
\* display string per decodable child, directories marked and files not, in
\* non-decreasing order of the raw bytes; undecodable children are skipped.
C9_ListingSortedAndMarked ==
    Listable(fs, path) =>
        LET below == Below(path, entries)
            kids == DecodableChildren(fs, path)
        IN /\ Len(below) = Cardinality(kids)
           /\ {below[i] : i \in 1..Len(below)} = {Marked(n) : n \in kids}
           /\ \A i \in 1..Len(below) : \A j \in i..Len(below) :
                 BytesLeq(below[i], below[j])

C9_Witness ==
    /\ pc = "lister"
    /\ Listable(fs, path)
    /\ \E n \in children(fs, path) : ~to_str_ok(file_name(n))
    /\ \E i \in 1..(Len(entries) - 2) :
          /\ entries[i] = NAME_AB
          /\ entries[i + 1] = NAME_A \o <<SLASH>>
          /\ entries[i + 2] = NAME_E_ACUTE

\* C10: a navigation step to a path that cannot be statted, is no directory
\* or cannot be enumerated yields the empty listing with index 0, sets no
\* exit code, prints nothing, and the loop goes on.
C10_UnlistableDegradesToEmpty ==
    [][(/\ mode = "File" /\ PassStep
        /\ act'.w = "ListBox"
        /\ path' # path
        /\ ~Listable(fs, path'))
       => (/\ entries' = <<>>
           /\ index' = 0
           /\ pass_code' = None
           /\ out' = out
           /\ status' = None
           /\ pc' \in {"gather", "swap"})]_vars

\* The other two ways a navigation step meets an unlistable path.
C10_UnreadableReached ==
    /\ mode = "File" /\ pc = "swap" /\ act.w = "ListBox"
    /\ path = <<NAME_A, NAME_C>> /\ entries = <<>>

C10_NotADirectoryReached ==
    /\ mode = "File" /\ pc = "swap" /\ act.w = "ListBox"
    /\ path = <<NAME_A>> /\ exists(fs, path) /\ ~is_dir(fs, path) /\ entries = <<>>

C10_Witness ==
    /\ mode = "File" /\ pc = "swap"
    /\ act = W("ListBox", 1)
    /\ path = <<NAME_A>>
    /\ ~exists(fs, path)
    /\ entries = <<>> /\ index = 0 /\ pass_code = None /\ out = <<>>

\* C11: the buffer of an input box is MAX_TEXT_LENGTH bytes long and ends in
\* a 0 byte in every state: as built from an absent, short, exactly fitting
\* or too long initial text, and after the text field has edited it.
C11_BufferSizedAndTerminated ==
    mode = "Input" => (Len(data) = MAX_TEXT_LENGTH /\ data[MAX_TEXT_LENGTH] = 0)

\* A text that fills the buffer up to its terminator.
C11_FullBufferReached ==
    mode = "Input" /\ position_of_nul(data) = MAX_TEXT_LENGTH - 1

C11_Witness ==
    /\ mode = "Input" /\ edits = 1 /\ act.w = "Edit"
    /\ SubSeq(data, 1, 4) = <<104, 105, 120, 0>>

\* The initial text as far as the capacity of the buffer goes.
UpToCapacity(t) ==
    IF Len(t) <= MAX_TEXT_LENGTH - 1 THEN t ELSE SubSeq(t, 1, MAX_TEXT_LENGTH - 1)

\* C12: an input box started with initial text T (absent: the empty text)
\* and submitted before any edit resolves with exit code 0 and prints one
\* line: T when T has at most 1023 bytes, else the first 1023 bytes of T.
C12_UneditedSubmitPrintsInitialText ==
    (mode = "Input" /\ edits = 0 /\ pass_code = Some(0)) =>
        /\ exit_code = 0
        /\ pc \in {"exit", "done"}
        /\ pc = "done" => status = Some(0)
        /\ \E t \in InitialTexts \cup {<<>>} :
              /\ data = Dialog_inputbox(IF t = <<>> THEN None ELSE Some(t))
              /\ out = <<UpToCapacity(t)>>

\* The short text submitted with Enter.
C12_ShortTextReached ==
    /\ mode = "Input" /\ edits = 0 /\ pc = "done" /\ status = Some(0)
    /\ act = W("Enter", 0)
    /\ out = << <<104, 105>> >>

C12_Witness ==
    /\ mode = "Input" /\ edits = 0 /\ pc = "done" /\ status = Some(0)
    /\ act = W("OK", 0)
    /\ data = Dialog_inputbox(Some(Fill(MAX_TEXT_LENGTH + 1)))
    /\ out = <<Fill(MAX_TEXT_LENGTH - 1)>>

\* The event step of an iteration.
EventStep == pc = "dequeue" /\ pc' # pc

\* What applying event e does to the input state the UI passes read.
Applied(e) ==
    /\ keys_down' = CASE e.type = "KeyDown" -> keys_down \cup {e.scancode}
                      [] e.type = "KeyUp" -> keys_down \ {e.scancode}
                      [] OTHER -> keys_down
    /\ input_chars' = IF e.type = "TextInput" THEN input_chars \o e.text
                      ELSE input_chars
    /\ (e.type = "Quit" \/ e = KeyDown("Escape")) <=> pc' = "exit"

\* C13: the event step of an iteration removes exactly one event from the
\* queue, the oldest, and applies it; the step is taken once per iteration
\* (only after the first pass and the gathering of events), and no other
\* step removes an event, reorders the queue or applies one.
C13_OneOldestEventPerIteration ==
    [][/\ EventStep =>
            /\ event_queue # <<>>
            /\ event_queue' = Tail(event_queue)
            /\ Applied(Head(event_queue))
       /\ ~EventStep =>
            /\ \E batch \in Batches : event_queue' = event_queue \o batch
            /\ keys_down' = keys_down
            /\ input_chars' \in {input_chars, <<>>}
       /\ (pc' = "dequeue" /\ pc' # pc) => pc = "gather"
       /\ (pc' = "gather" /\ pc' # pc) => pc = "render1"]_vars

\* Of a text input followed by a Return key-down, the text input has been
\* applied and the key-down is still queued.
C13_Witness ==
    /\ pc = "mouse"
    /\ event_queue = <<KeyDown("Return")>>
    /\ input_chars = <<120>>
    /\ "Return" \notin keys_down

\* The acts a pointer click makes a pass report.
IsClick(a) == a.w \in {"OK", "Cancel", "ListBox", "Selectable"}

\* C14: with K events queued when the user performs the confirming input, no
\* pass returns the accept code before iteration K + 1, counting from the
\* iteration the input is performed in: for the Return key-down put in the
\* queue behind K events (accepted only once K + 1 event steps, one an
\* iteration, have been taken), and for a click that the pointer sample of
\* an iteration picks up while K events are queued (the second pass of that
\* iteration is in iteration 1, the first pass of the next in iteration 2).
C14_ConfirmWaitsForQueue ==
    [][(PassStep /\ pass_code' = Some(0)) =>
          /\ act' = W("Enter", 0) => confirm_wait = Some(0)
          /\ IsClick(act') =>
                (IF pc = "render2" THEN 1 ELSE 2) >= Len(event_queue) + 1]_vars

\* C14 as amended: the accept of a confirming key press (Return in the text
\* field of an input box) queued behind K events is returned in iteration
\* K + 1 or later, counting from the iteration that queued it: not before
\* K + 1 event steps have been taken.
C14_KeyConfirmWaitsForQueue ==
    (mode = "Input" /\ act = W("Enter", 0)) =>
        /\ pass_code = Some(0)
        /\ confirm_wait = Some(0)

\* The wait of a Return key-down queued behind one event: two event steps.
C14_BehindOneReached ==
    /\ mode = "Input" /\ pc = "dequeue"
    /\ event_queue = <<MouseMotion, KeyDown("Return")>>
    /\ confirm_wait = Some(2)

\* The Return key-down has waited its event steps and the second pass of
\* the iteration that removed it has accepted, a text input having been
\* applied and typed into the buffer before.
C14_Witness ==
    /\ mode = "Input" /\ act = W("Enter", 0) /\ pc = "done" /\ status = Some(0)
    /\ confirm_wait = Some(0)
    /\ back_buffer = 2
    /\ edits = 1
    /\ event_queue = <<>>

\* A click accepted in the iteration that sampled it, an event still queued.
C14_ClickOvertakesQueue ==
    /\ pass_code = Some(0) /\ act = W("OK", 0) /\ pc = "exit"
    /\ event_queue # <<>>

\* A pass has returned a code (a pass that panicked has returned nothing).
Resolved == pass_code # None /\ status # Some(PANIC_STATUS)

\* C15: once a pass has returned a code, the only step left is the exit of
\* the process with exactly that code: no pass, no removal or application
\* of an event, no pointer sample; what the queue holds stays unapplied.
C15_ExitDecisionIsTerminal ==
    [][Resolved =>
          /\ pc = "exit" /\ pc' = "done"
          /\ status' = pass_code
          /\ UNCHANGED <<event_queue, keys_down, input_chars, mouse_pos, act,
                         pass_code, exit_code, out, path, entries, index, data>>]_vars

\* Cancel was returned with an event still queued; the process has exited
\* with 1 and the event is still there.
C15_Witness ==
    /\ pc = "done" /\ pass_code = Some(1) /\ status = Some(1)
    /\ event_queue # <<>>
    /\ "Return" \notin keys_down /\ Head(event_queue) = KeyDown("Return")

\* The same for an accept.
C15_AcceptReached ==
    /\ pc = "done" /\ pass_code = Some(0) /\ status = Some(0) /\ Len(out) = 1
    /\ event_queue # <<>>

IsDraw(c) == c.call = "DrawElements"

IsScissor(c) == c.call = "Scissor"

\* The sub-commands of a frame in submission order.
RECURSIVE SubCommands(_)
SubCommands(frame) ==
    IF frame = <<>> THEN <<>>
    ELSE Head(frame).cmd_buffer \o SubCommands(Tail(frame))

\* C16: for any frame the bridge issues one draw call per sub-command, so as
\* many draw calls as the batches have sub-commands in all, in submission
\* order: the k-th draw call draws the k-th sub-command, and the draw calls
\* issued before the upload of a batch are those of the batches before it.
C16_OneDrawPerSubCommandInOrder ==
    pc = "drawn" =>
        LET draws == SelectSeq(gl_calls, IsDraw)
            subs == SubCommands(draw_data)
            uploads == {i \in 1..Len(gl_calls) : gl_calls[i].call = "BufferData"}
        IN /\ Len(draws) = Len(subs)
           /\ \A k \in 1..Len(subs) : draws[k].args[1] = subs[k].elem_count
           /\ Cardinality(uploads) = Len(draw_data)
           /\ \A i \in uploads :
                 LET batch == Cardinality({j \in uploads : j <= i})
                 IN Len(SelectSeq(SubSeq(gl_calls, 1, i), IsDraw))
                       = Len(SubCommands(SubSeq(draw_data, 1, batch - 1)))

\* Two batches of two sub-commands each, one of them with an empty scissor
\* rectangle, drawn as submitted.
C16_Witness ==
    /\ pc = "drawn"
    /\ Len(draw_data) = 2
    /\ \A b \in 1..2 : Len(draw_data[b].cmd_buffer) = 2
    /\ [k \in 1..2 |-> draw_data[1].cmd_buffer[k].elem_count] = <<9, 3>>
    /\ [k \in 1..2 |-> draw_data[2].cmd_buffer[k].elem_count] = <<3, 6>>
    /\ [k \in 1..4 |-> SelectSeq(gl_calls, IsDraw)[k].args[1]] = <<9, 3, 3, 6>>

\* The integer n is the f32 v (in half pixels) with its fraction dropped.
IsTruncationOf(n, v) ==
    IF v >= 0 THEN 2 * n <= v /\ v < 2 * n + 2
    ELSE 2 * n - 2 < v /\ v <= 2 * n

\* C17: the scissor rectangle set right before the draw call of a sub-command
\* with clip rectangle (x, y, z, w) has origin (x, FRAMEBUFFER_HEIGHT - w),
\* width z - x and height w - y, each as the integer the f32 converts to,
\* and its width and height are not negative.
C17_ScissorIsClipRectInverted ==
    pc = "drawn" =>
        LET rects == SelectSeq(gl_calls, IsScissor)
            subs == SubCommands(draw_data)
        IN /\ Len(rects) = Len(subs)
           /\ \A i \in 1..Len(gl_calls) :
                 IsDraw(gl_calls[i]) => (i > 1 /\ IsScissor(gl_calls[i - 1]))
           /\ \A k \in 1..Len(subs) :
                 LET c == subs[k].clip_rect
                     s == rects[k].args
                 IN /\ IsTruncationOf(s[1], c.x)
                    /\ IsTruncationOf(s[2], f32(FRAMEBUFFER_HEIGHT) - c.w)
                    /\ IsTruncationOf(s[3], c.z - c.x)
                    /\ IsTruncationOf(s[4], c.w - c.y)
                    /\ s[3] >= 0
                    /\ s[4] >= 0

\* The three rectangles of the family as they reach gl::Scissor.
C17_Witness ==
    /\ pc = "drawn"
    /\ SelectSeq(gl_calls, IsScissor)
          = << Scissor(10, 549, 0, 30),
               Scissor(0, 0, 800, 600),
               Scissor(-8192, -7592, 16384, 16384) >>

\* The step that removes a quit event.
QuitStep ==
    pc = "dequeue" /\ pc' # pc /\ event_queue # <<>> /\ Head(event_queue) = Quit

\* The loop was left by the quit arm: no pass returned a code, Escape was
\* not pressed, nothing panicked.
EndedByQuit ==
    /\ pc \in {"exit", "done"}
    /\ pass_code = None
    /\ "Escape" \notin keys_down
    /\ status # Some(PANIC_STATUS)

\* C18: the step that removes a quit event ends the loop: what follows is
\* the exit of the process, with no pass, no pointer sample and no result
\* line in between; the outcome is neither that of an accept (status 0 and
\* a result line) nor that of a cancel (status 1).
C18_QuitEndsLoopAtOnce ==
    [][/\ QuitStep =>
            /\ pc' = "exit" /\ EndedByQuit'
            /\ UNCHANGED <<act, pass_code, back_buffer, mouse_pos, out, exit_code>>
       /\ (pc = "exit" /\ EndedByQuit) =>
            /\ pc' = "done" /\ EndedByQuit'
            /\ UNCHANGED <<act, pass_code, back_buffer, mouse_pos, out, event_queue>>
            /\ status' = Some(exit_code)
            /\ ~(status' = Some(0) /\ out' # <<>>)
            /\ status' # Some(1)]_vars

\* A quit event behind a Return key-down: the session ended in its second
\* iteration with nothing printed, the pointer where the first iteration
\* sampled it.
C18_Witness ==
    /\ pc = "done" /\ EndedByQuit
    /\ status = Some(0) /\ out = <<>>
    /\ event_queue = <<>> /\ "Return" \in keys_down
    /\ mouse_pos = W("OK", 0)

\* The command line is a --menu one whose width, height and menu_height
\* are numbers.
IsMenuInvocation ==
    /\ args # <<>> /\ args.fselect = None /\ args.inputbox = None
    /\ \E values \in args.menu :
          /\ Len(values) >= 4
          /\ \A i \in 2..4 : parse_u32(values[i]) # None

\* The values after prompt, width, height and rowHeight.
ValuesAfterRowHeight ==
    LET values == CHOOSE x \in args.menu : TRUE
    IN SubSeq(values, 5, Len(values))

\* C19: once Dialog::new is through with a menu invocation, either the count
\* of values after prompt, width, height and rowHeight was odd, and then no
\* dialog was built, the help text was printed and the process has exited
\* with 0; or it was even, and then the items of the dialog built are the
\* consecutive (tag, label) pairs of them, in order.
C19_UnpairedTagPrintsUsage ==
    (pc # "new" /\ IsMenuInvocation) =>
        LET v == ValuesAfterRowHeight
        IN IF Len(v) % 2 = 1
           THEN /\ pc = "done" /\ mode = "none" /\ items = <<>>
                /\ out = <<HELP_STRING>>
                /\ status = Some(0)
           ELSE /\ pc = "built" /\ mode = "Menu"
                /\ out = <<>> /\ status = None
                /\ Len(items) = Len(v) \div 2
                /\ \A k \in 1..Len(items) :
                      items[k] = MenuItem(v[2 * k - 1], v[2 * k])

\* Two pairs and a tag left over.
C19_Witness ==
    /\ pc = "done" /\ status = Some(0) /\ out = <<HELP_STRING>>
    /\ IsMenuInvocation
    /\ ValuesAfterRowHeight = <<TAG_YES, LABEL_CONFIRM, TAG_NO, LABEL_CONFIRM, TAG_NO>>

\* Two pairs.
C19_PairsReached ==
    /\ pc = "built"
    /\ IsMenuInvocation
    /\ ValuesAfterRowHeight = <<TAG_YES, LABEL_CONFIRM, TAG_NO, LABEL_CONFIRM>>
    /\ items = <<MenuItem(TAG_YES, LABEL_CONFIRM), MenuItem(TAG_NO, LABEL_CONFIRM)>>

\* C20: an iteration is, in this order, a pass, the removal and application
\* of one event, a pointer sample, a second pass and a swap, the two passes
\* of an iteration being what the swap presents; after either pass a
\* returned code ends the loop, and the pass that returned it has drawn its
\* frame like any other.  Nothing else removes an event, moves the pointer
\* or draws.
C20_IterationOrder ==
    [][/\ PassStep =>
            \/ status' = Some(PANIC_STATUS)
            \/ /\ back_buffer' = back_buffer + 1
               /\ pass_code' = None =>
                     (/\ pc' = (IF pc = "render1" THEN "gather" ELSE "swap")
                      /\ exit_code' = exit_code)
               /\ \A c \in pass_code' : (pc' = "exit" /\ exit_code' = c)
       /\ (pc = "gather" /\ pc' # pc) => pc' = "dequeue"
       /\ EventStep =>
            (/\ pc' \in {"mouse", "exit"}
             /\ event_queue # <<>> /\ event_queue' = Tail(event_queue))
       /\ (pc = "mouse" /\ pc' # pc) => pc' = "render2"
       /\ (pc = "swap" /\ pc' # pc) =>
            (pc' = "render1" /\ back_buffer = 2 /\ back_buffer' = 0)
       /\ mouse_pos' # mouse_pos => pc = "mouse"
       /\ Len(event_queue') < Len(event_queue) => pc = "dequeue"
       /\ back_buffer' # back_buffer => (PassStep \/ pc = "swap")]_vars

\* The end of a whole iteration: two frames drawn, the Return key-down
\* applied, the pointer sampled on the OK button, no code returned.
C20_Witness ==
    /\ pc = "swap" /\ back_buffer = 2
    /\ "Return" \in keys_down
    /\ mouse_pos = W("OK", 0)
    /\ pass_code = None /\ status = None

\* The second pass of an iteration has returned a code: its frame is drawn
\* and the loop is left before the swap.
C20_ResolvingPassDrawn ==
    /\ pc = "exit" /\ pass_code = Some(0) /\ back_buffer = 2

----------------------------------------------------------------------------
(* C21 *)

\* The gathering step can finish with no event having arrived: it did not
\* have to wait.
GathersWithoutWaiting == ENABLED (Gather /\ event_queue' = event_queue)

\* C21: the gathering step has to wait for an event exactly when the queue
\* is empty -- with events left over from earlier iterations it finishes
\* even if none arrives -- and the queue is never empty when the front event
\* is removed.
C21_WaitsOnlyWhenEmpty ==
    /\ pc = "gather" => (GathersWithoutWaiting <=> event_queue # <<>>)
    /\ pc = "dequeue" => event_queue # <<>>

\* An event of an earlier iteration has been applied (Return is held) and
\* another is still queued when the loop comes to gather again.
C21_Witness ==
    /\ pc = "gather"
    /\ "Return" \in keys_down
    /\ event_queue # <<>>

\* The loop comes to gather with the queue empty and has to wait.
C21_EmptyReached ==
    /\ pc = "gather"
    /\ event_queue = <<>>
    /\ ~GathersWithoutWaiting

----------------------------------------------------------------------------
(* C22 *)

IsUpload(c) == c.call = "BufferData"

\* The element counts of the first n commands, added up.
RECURSIVE ElemCountSum(_, _)
ElemCountSum(cmds, n) ==
    IF n = 0 THEN 0 ELSE ElemCountSum(cmds, n - 1) + cmds[n].elem_count

\* Position in the call sequence of the b-th upload.
UploadAt(calls, b) ==
    CHOOSE i \in 1..Len(calls) :
        /\ IsUpload(calls[i])
        /\ Len(SelectSeq(SubSeq(calls, 1, i), IsUpload)) = b

\* The calls from the b-th upload up to the next one.
CallsOfBatch(calls, b) ==
    LET first == UploadAt(calls, b)
        last == IF b = Len(SelectSeq(calls, IsUpload)) THEN Len(calls)
                ELSE UploadAt(calls, b + 1) - 1
    IN SubSeq(calls, first, last)

\* C22: the calls of a frame fall into one stretch per batch, each starting
\* with the one vertex upload of its batch and holding after it the draw
\* calls of that batch and of no other; the j-th draw call of a batch reads
\* as many indices as its sub-command has elements, starting at the sum of
\* the element counts of the sub-commands before it in the batch, 0 for the
\* first.
C22_UploadThenDrawsFromCursor ==
    pc = "drawn" =>
        /\ Len(SelectSeq(gl_calls, IsUpload)) = Len(draw_data)
        /\ gl_calls # <<>> => IsUpload(gl_calls[1])
        /\ \A b \in 1..Len(draw_data) :
              LET cmds == draw_data[b].cmd_buffer
                  draws == SelectSeq(CallsOfBatch(gl_calls, b), IsDraw)
              IN /\ Len(draws) = Len(cmds)
                 /\ \A j \in 1..Len(cmds) :
                       /\ draws[j].args[1] = cmds[j].elem_count
                       /\ draws[j].args[2] = ElemCountSum(cmds, j - 1)

\* Two batches of two sub-commands: the cursor has advanced by 9 at the
\* second draw of the first batch and is back at 0 for the second batch.
C22_Witness ==
    /\ pc = "drawn"
    /\ Len(draw_data) = 2
    /\ \A b \in 1..2 : Len(draw_data[b].cmd_buffer) = 2
    /\ [k \in 1..2 |-> draw_data[1].cmd_buffer[k].elem_count] = <<9, 6>>
    /\ [k \in 1..2 |-> draw_data[2].cmd_buffer[k].elem_count] = <<3, 6>>
    /\ [k \in 1..4 |-> SelectSeq(gl_calls, IsDraw)[k].args[2]] = <<0, 9, 0, 3>>
    /\ [k \in {1, 6} |-> gl_calls[k].call] = [k \in {1, 6} |-> "BufferData"]

----------------------------------------------------------------------------
(* C23 *)

\* Every component of p is a name: not empty and without a separator, so
\* that display(p) is an absolute path.
IsAbsolute(p) ==
    \A k \in 1..Len(p) : p[k] # <<>> /\ \A j \in 1..Len(p[k]) : p[k][j] # SLASH

\* C23: while the go-up row and directory rows are confirmed, currentPath
\* stays absolute and no pass resolves or ends the session; and from a
\* readable directory P, confirming a directory row and then the go-up row
\* of the listing this brings up leads back to P, with row 0 selected and
\* the entries P had.
C23_NavigationRoundTrip ==
    /\ IsAbsolute(path)
    /\ pass_code = None /\ status = None /\ pc = "nav"
    /\ Listable(fs, path) =>
          \A i \in 1..Len(entries) :
              IsDirRow(path, entries, i) =>
                  \A down \in render_file_dialog(fs, path, entries, index, out,
                                                 W("ListBox", i)) :
                      /\ down.code = None /\ ~down.panic
                      /\ down.path = Append(path, pop(entries[i]))
                      /\ down.entries # <<>> =>
                            \A up \in render_file_dialog(fs, down.path, down.entries,
                                                         down.index, down.out,
                                                         W("ListBox", 1)) :
                                /\ up.code = None /\ ~up.panic
                                /\ up.path = path
                                /\ up.index = 0
                                /\ up.entries = entries
                                /\ up.out = out

\* Back in /a by the go-up row of /a/a: with the file /0, row 1 of "/" is
\* not a directory row, so a click on row 1 that ends in /a came from below.
C23_Witness ==
    /\ pc = "nav"
    /\ exists(fs, <<NAME_0>>)
    /\ act = W("ListBox", 1)
    /\ path = <<NAME_A>>
    /\ entries = <<UP_ONE_LEVEL, NAME_A \o <<SLASH>>, NAME_B \o <<SLASH>> >>
    /\ index = 0

\* A directory that cannot be read has been entered: its listing is empty,
\* with no go-up row to confirm.
C23_NoWayBackReached ==
    /\ pc = "nav"
    /\ path = <<NAME_A, NAME_A>>
    /\ entries = <<>>

----------------------------------------------------------------------------
(* C24 *)

\* The line a pass of the file dialog prints for row i of its listing.
PrintedFor(p, ents, i) == display(Append(p, ents[i]))

\* C24: whenever a UI pass of the file dialog returns code 0, by a click in
\* the list box or by the OK button, the selected row is a file row and the
\* line printed is currentPath joined with that row's name: never a
\* directory row, never the go-up row.
C24_AcceptOnlyOnFileRow ==
    [][(mode = "File" /\ PassStep /\ pass_code' = Some(0) /\ status' = None)
       => (/\ IsFileRow(path', entries', index' + 1)
           /\ out' = Append(out, PrintedFor(path', entries', index' + 1)))]_vars

\* The part of C24 the code keeps: the accept by a click in the list box.
AcceptByListBoxOnFileRow ==
    [][(/\ mode = "File" /\ PassStep /\ pass_code' = Some(0) /\ status' = None
        /\ act'.w = "ListBox")
       => (/\ IsFileRow(path', entries', index' + 1)
           /\ out' = Append(out, PrintedFor(path', entries', index' + 1)))]_vars

\* OK pressed in "/" with the directory row "a/" selected: "/a" is printed
\* and the process exits 0.
C24_DirectoryAcceptedReached ==
    /\ mode = "File" /\ pc = "done" /\ status = Some(0)
    /\ act = W("OK", 0)
    /\ path = <<>> /\ index = 0
    /\ entries[1] = NAME_A \o <<SLASH>>
    /\ out = << <<SLASH>> \o NAME_A >>

----------------------------------------------------------------------------
(* C25 *)

\* C25: in a pass of the file dialog, the row looked up for a click in the
\* list box (any row but the go-up row) and the row looked up to print the
\* selection of an accept are rows of entries, and the pass does not end
\* the session abnormally, an empty listing included.
C25_SelectedIndexInRange ==
    [][(mode = "File" /\ PassStep)
       => (/\ (act'.w = "ListBox" /\ ~IsGoUpRow(path, act'.i))
                 => act'.i - 1 < Len(entries)
           /\ pass_code' = Some(0) => index' < Len(entries')
           /\ status' # Some(PANIC_STATUS))]_vars

\* The part of C25 the code keeps: the lookup of a click in the list box.
ListBoxLookupInRange ==
    [][(mode = "File" /\ PassStep /\ act'.w = "ListBox")
       => (/\ act'.i - 1 < Len(entries)
           /\ status' # Some(PANIC_STATUS))]_vars

\* OK pressed on the empty listing of a directory that cannot be read: the
\* lookup of row 0 ends the process.
C25_EmptyListingPanicReached ==
    /\ mode = "File" /\ pc = "done" /\ status = Some(PANIC_STATUS)
    /\ act = W("OK", 0)
    /\ path = <<NAME_A, NAME_C>>
    /\ entries = <<>> /\ index = 0
    /\ out = <<>>

----------------------------------------------------------------------------
(* C26 *)

\* The command line has --menu alone, with the three values or more its
\* declaration asks for.
IsMenuAlone ==
    /\ args # <<>> /\ args.fselect = None /\ args.inputbox = None
    /\ \E values \in args.menu : Len(values) >= 3

\* C26: once Dialog::new is through with a --menu command line, either a
\* menu dialog has been built, or the help text has been printed and the
\* process has exited with 0; it has not ended abnormally, a command line
\* without rowHeight included.
C26_MenuBuildsOrPrintsUsage ==
    (pc # "new" /\ IsMenuAlone) =>
        \/ pc = "built" /\ mode = "Menu" /\ status = None
        \/ pc = "done" /\ status = Some(0) /\ out = <<HELP_STRING>>

\* The part of C26 the code keeps: with rowHeight there and the three
\* numbers well formed.
NumberedMenuBuildsOrPrintsUsage ==
    (pc # "new" /\ IsMenuInvocation) =>
        \/ pc = "built" /\ mode = "Menu" /\ status = None
        \/ pc = "done" /\ status = Some(0) /\ out = <<HELP_STRING>>

\* --menu with prompt, width and height only: the unwrap of the missing
\* rowHeight ends the process, nothing printed.
C26_MissingRowHeightPanicReached ==
    /\ pc = "done"
    /\ args # <<>> /\ args.fselect = None /\ args.inputbox = None
    /\ args.menu = Some(<<PROMPT, NUMBER, NUMBER>>)
    /\ status = Some(PANIC_STATUS)
    /\ out = <<>>

====
